---- MODULE Spec2Model ----
(***************************************************************************)
(* InfluxDBFileImporter.import_files (src/src/influxdb_file_importer.py):  *)
(* incremental import of the files of several source directories into a   *)
(* remote store, with one watermark (last_mtime) per source kept in a     *)
(* JSON status file.                                                       *)
(*                                                                         *)
(* Time.  A file's st_mtime is a float with sub-microsecond resolution;   *)
(* the status file keeps an ISO-8601 string with microseconds.  Instants   *)
(* are counted here in ticks, TicksPerMicro ticks to the microsecond:     *)
(* mtimes are ticks, stored watermarks are whole microseconds.            *)
(*                                                                         *)
(* Records.  The record stream of a source is addressed by position       *)
(* (1, 2, ...); a batch is the interval <<lo, hi>> of stream positions    *)
(* it holds.                                                               *)
(***************************************************************************)
EXTENDS Integers, Sequences, FiniteSets, TLC

\* ---------------------------------------------------------------- bounds
MaxMtime == 3
TicksPerMicro == 2

\* ------------------------------------------------- configuration, inputs
\* self._files_cfg["data"], in declared order
Sources == <<"foo", "bar">>
SourceNames == {Sources[i] : i \in 1..Len(Sources)}
\* the file names a source directory may hold, ordered as paths compare
Paths == {1, 2}
Mtimes == 1..MaxMtime
\* config["pattern"]: "foo" has none, the pattern of "bar" matches name 1 only
NoPattern == ""
PatternOf(name) == IF name = "foo" THEN NoPattern ELSE "1"
FullMatch(pattern, p) == pattern = "1" /\ p = 1
BATCH_SIZE == 5000
\* the numbers of records parse_file may yield for one file
RecordCounts == {0, 2000, 10000}

VARIABLES
  dir,            \* [source -> [path -> directory entry]]
  statusFile,     \* the status file on disk
  pc,             \* where import_files is
  dry_run,
  idx,            \* position in Sources of the source being processed
  status,         \* the table read from the status file for this source
  last_mtime_ts,  \* the source's watermark, in ticks
  listing,        \* the entries of the directory in iterdir()'s order
  sorted,         \* sorted_file_mtimes_paths
  fileIdx,        \* how many files of sorted the records generator has entered
  curRemaining,   \* records the current file has still to yield
  curFails,       \* the current file's parse_file raises after them
  streamPos,      \* records pulled from the generator so far
  bufCount,       \* records in the open window of buffer_with_count
  connOpen,       \* number of open connections (client + write_api)
  raised,         \* the exception import_files ended with
  cause,          \* what failed
  failedBatch,    \* the batch whose write failed
  parseCalls,     \* paths parse_file was called on, in order (this source)
  batches,        \* batches handed to on_next, in order (this source)
  written,        \* batches written to the remote store (this source)
  log,            \* per source, what this run did for it
  statusAtStart,  \* the status file when the run started
  imported,       \* per source, the files a run committed and whose mtime has
                  \* not changed since, each with the watermark committed
  metadata,       \* the object load_metadata returned last
  lastRun,        \* "dry" or "real": the last run returned and no directory
                  \* has changed since; "none" otherwise
  parsed,         \* per source, the files parse_file was called on by some
                  \* run, mtime unchanged since
  track           \* which of lastRun and parsed is being recorded

vars == <<dir, statusFile, pc, dry_run, idx, status, last_mtime_ts, listing,
          sorted, fileIdx, curRemaining, curFails, streamPos, bufCount,
          connOpen, raised, cause, failedBatch, parseCalls, batches, written,
          log, statusAtStart, imported, metadata, lastRun, parsed, track>>

\* ------------------------------------------------------------- helpers
Min(a, b) == IF a <= b THEN a ELSE b

NoFile == [kind |-> "none", mtime |-> 0]
EmptyTable == [n \in {} |-> 0]
NoLog == [meta |-> FALSE, scanned |-> FALSE, empty |-> FALSE, conn |-> FALSE,
          parsed |-> FALSE, wrote |-> FALSE, committed |-> FALSE, wm |-> 0,
          metaCalls |-> 0, metaObj |-> "none", passed |-> {}, other |-> {}]
\* the object load_metadata(config["metadata"], name) returns
MetadataOf(n) == "metadata of " \o n
NoBatch == <<0, 0>>
Without(f, S) == [k \in DOMAIN f \ S |-> f[k]]
PathsOf(s) == {s[i].p : i \in DOMAIN s}

name == Sources[idx]

\* dt.datetime(1970, 1, 1, tzinfo=local_tz): the watermark of an absent entry
Epoch == 0

\* datetime.fromtimestamp(t, tz).isoformat(): the instant is rounded to the
\* nearest microsecond, halves to the even one
FormatIso(t) ==
  LET q == t \div TicksPerMicro
      r == t % TicksPerMicro
  IN  IF 2 * r < TicksPerMicro THEN q
      ELSE IF 2 * r > TicksPerMicro THEN q + 1
      ELSE IF q % 2 = 0 THEN q ELSE q + 1

\* datetime.fromisoformat(s).timestamp()
ParseIso(w) == w * TicksPerMicro

\* status.setdefault(name, {}).get("last_mtime", <epoch>)
LastMtime(table, n) == IF n \in DOMAIN table THEN table[n] ELSE Epoch

\* mutant of SetLastMtime: the table written holds the source's key alone
SetOnlyLastMtime(table, n, w) == [k \in {n} |-> w]

\* mutant of SetLastMtime: the key is replaced in the table the status file
\* holds at that moment, not in the table read before the delivery
SetLastMtimeOnDisk(table, n, w) ==
  [k \in DOMAIN statusFile.table \cup {n} |->
     IF k = n THEN w ELSE statusFile.table[k]]

\* status[name]["last_mtime"] = ...: one key of the table read is replaced
SetLastMtime(table, n, w) ==
  [k \in DOMAIN table \cup {n} |-> IF k = n THEN w ELSE table[k]]

\* mutants of NewerThan: the watermark is not compared; the comparison admits
\* the watermark itself
NewerThanDropped(t, last) == TRUE
NewerOrEqual(t, last) == t >= last

\* t > last_mtime_ts
NewerThan(t, last) == t > last

\* not pattern or re.fullmatch(pattern, p.name)
Matches(pattern, p) == pattern = NoPattern \/ FullMatch(pattern, p)

\* the orders iterdir() may list a set of entries in
Orders(S) ==
  {q \in [1..Cardinality(S) -> S] : \A i, j \in DOMAIN q : i # j => q[i] # q[j]}

\* mutant of GetMtime: the mtime of a file that is gone is still returned
GetMtimeOfGone(d, p, gone) == {d[p].mtime}

\* get_mtime(file_path): the set holding st_mtime, empty (None) when the file
\* is not found
GetMtime(d, p, gone) == IF p \in gone THEN {} ELSE {d[p].mtime}

RECURSIVE SelectSeq2(_, _, _, _, _)
\* the (p, t) of the listed regular files that are still there, newer than the
\* watermark and matching the pattern, in listing order
SelectSeq2(order, d, gone, last, pattern) ==
  IF order = <<>> THEN <<>>
  ELSE LET p == Head(order)
           rest == SelectSeq2(Tail(order), d, gone, last, pattern)
       IN  IF /\ d[p].kind = "file"
              /\ \E t \in GetMtime(d, p, gone) : NewerThan(t, last)
              /\ Matches(pattern, p)
           THEN <<[p |-> p, t |-> CHOOSE t \in GetMtime(d, p, gone) : TRUE]>>
                  \o rest
           ELSE rest

\* x goes after every element whose key is not larger: the sort is stable
Insert(s, x) ==
  LET k == Cardinality({i \in DOMAIN s : s[i].t <= x.t})
  IN  SubSeq(s, 1, k) \o <<x>> \o SubSeq(s, k + 1, Len(s))

\* mutant of SortByMtime: the candidates stay in listing order
Unsorted(s) == s

RECURSIVE SortByMtime(_)
\* sorted(file_mtimes_paths, key=lambda tp: tp[1])
SortByMtime(s) ==
  IF s = <<>> THEN <<>>
  ELSE Insert(SortByMtime(SubSeq(s, 1, Len(s) - 1)), s[Len(s)])

\* mutant of NewWatermark: the first candidate's mtime is stored
NewWatermarkOfFirst(cands) == FormatIso(cands[1].t)

\* dt.datetime.fromtimestamp(sorted_file_mtimes_paths[-1][1], tz).isoformat()
NewWatermark(cands) == FormatIso(cands[Len(cands)].t)

\* mutant of IsEmpty: the test is made on a generator, which is always true
IsEmptyOfGenerator(cands) == FALSE

\* if not sorted_file_mtimes_paths
IsEmpty(cands) == cands = <<>>

\* buffer_with_count(BATCH_SIZE): a window closes when it holds BATCH_SIZE records
WindowFull(n) == n = BATCH_SIZE

\* mutant of EmitOnCompleted: the last window is emitted even when empty
EmitAlways(n) == TRUE

\* buffer_with_count's filter: the last window is emitted unless it is empty
EmitOnCompleted(n) == n > 0

TypeOK ==
  /\ pc \in {"idle", "load", "scan", "stream", "commit", "write", "done",
             "raised", "crashed"}
  /\ dry_run \in BOOLEAN
  /\ idx \in 1..Len(Sources)
  /\ connOpen \in 0..1
  /\ statusFile.state \in {"absent", "valid", "truncated"}

\* ---------------------------------------------------------------- Init
InitState ==
  /\ dir = [s \in SourceNames |-> [p \in Paths |-> NoFile]]
  /\ statusFile = [state |-> "absent", table |-> EmptyTable]
  /\ pc = "idle"
  /\ dry_run = FALSE
  /\ idx = 1
  /\ status = EmptyTable
  /\ last_mtime_ts = 0
  /\ listing = <<>>
  /\ sorted = <<>>
  /\ fileIdx = 0
  /\ curRemaining = 0
  /\ curFails = FALSE
  /\ streamPos = 0
  /\ bufCount = 0
  /\ connOpen = 0
  /\ raised = "none"
  /\ cause = "none"
  /\ failedBatch = NoBatch
  /\ parseCalls = <<>>
  /\ batches = <<>>
  /\ written = <<>>
  /\ log = [s \in SourceNames |-> NoLog]
  /\ statusAtStart = [state |-> "absent", table |-> EmptyTable]
  /\ imported = [s \in SourceNames |-> EmptyTable]
  /\ metadata = "none"
  /\ lastRun = "none"
  /\ parsed = [s \in SourceNames |-> {}]

\* lastRun and parsed are not recorded
Init == InitState /\ track = "none"

\* -------------------------------------------------------- environment
\* Between runs the directories change: a file is written (created or
\* modified), an entry that is no regular file appears, an entry is removed.
Touch(s, p, t) ==
  /\ pc = "idle"
  /\ dir[s][p] # [kind |-> "file", mtime |-> t]
  /\ dir' = [dir EXCEPT ![s][p] = [kind |-> "file", mtime |-> t]]
  /\ imported' = [imported EXCEPT ![s] = Without(@, {p})]
  /\ UNCHANGED <<statusFile, pc, dry_run, idx, status, last_mtime_ts, listing,
                 sorted, fileIdx, curRemaining, curFails, streamPos, bufCount,
                 connOpen, raised, cause, failedBatch, parseCalls, batches,
                 written, log, statusAtStart>>
  /\ lastRun' = "none"
  /\ parsed' = [parsed EXCEPT ![s] = @ \ {p}]
  /\ UNCHANGED metadata
  /\ UNCHANGED track

MakeDir(s, p) ==
  /\ pc = "idle"
  /\ dir[s][p].kind = "none"
  /\ dir' = [dir EXCEPT ![s][p] = [kind |-> "dir", mtime |-> 0]]
  /\ UNCHANGED <<statusFile, pc, dry_run, idx, status, last_mtime_ts, listing,
                 sorted, fileIdx, curRemaining, curFails, streamPos, bufCount,
                 connOpen, raised, cause, failedBatch, parseCalls, batches,
                 written, log, statusAtStart, imported>>
  /\ lastRun' = "none"
  /\ UNCHANGED <<metadata, parsed>>
  /\ UNCHANGED track

Remove(s, p) ==
  /\ pc = "idle"
  /\ dir[s][p].kind # "none"
  /\ dir' = [dir EXCEPT ![s][p] = NoFile]
  /\ imported' = [imported EXCEPT ![s] = Without(@, {p})]
  /\ UNCHANGED <<statusFile, pc, dry_run, idx, status, last_mtime_ts, listing,
                 sorted, fileIdx, curRemaining, curFails, streamPos, bufCount,
                 connOpen, raised, cause, failedBatch, parseCalls, batches,
                 written, log, statusAtStart>>
  /\ lastRun' = "none"
  /\ parsed' = [parsed EXCEPT ![s] = @ \ {p}]
  /\ UNCHANGED metadata
  /\ UNCHANGED track

\* ------------------------------------------------------- import_files
\* the per-source locals, as they are when a source's iteration starts
ResetSource ==
  /\ status' = EmptyTable
  /\ last_mtime_ts' = 0
  /\ listing' = <<>>
  /\ sorted' = <<>>
  /\ fileIdx' = 0
  /\ curRemaining' = 0
  /\ curFails' = FALSE
  /\ streamPos' = 0
  /\ bufCount' = 0
  /\ parseCalls' = <<>>
  /\ batches' = <<>>
  /\ written' = <<>>

\* the for loop goes on with the next source, or import_files returns
NextSource ==
  IF idx < Len(Sources)
  THEN idx' = idx + 1 /\ pc' = "load"
  ELSE idx' = idx /\ pc' = "done"

\* mutant of Raise: the connection stays open when an exception leaves
RaiseLeak(exc, why, batch) ==
  /\ pc' = "raised"
  /\ raised' = exc
  /\ cause' = why
  /\ failedBatch' = batch
  /\ connOpen' = connOpen

\* an exception leaves import_files; the with block releases the connection
Raise(exc, why, batch) ==
  /\ pc' = "raised"
  /\ raised' = exc
  /\ cause' = why
  /\ failedBatch' = batch
  /\ connOpen' = 0

\* import_files(dry_run): the status file is created if it is not there
StartRun(d) ==
  /\ pc = "idle"
  /\ dry_run' = d
  /\ statusAtStart' = statusFile
  /\ statusFile' = IF statusFile.state = "absent"
                   THEN [state |-> "valid", table |-> EmptyTable]
                   ELSE statusFile
  /\ idx' = 1
  /\ pc' = "load"
  /\ log' = [s \in SourceNames |-> NoLog]
  /\ UNCHANGED <<dir, status, last_mtime_ts, listing, sorted, fileIdx,
                 curRemaining, curFails, streamPos, bufCount, connOpen, raised,
                 cause, failedBatch, parseCalls, batches, written, imported>>
  /\ UNCHANGED <<metadata, lastRun, parsed, track>>

\* metadata = self.load_metadata(config["metadata"], name)
LoadMetadata ==
  /\ pc = "load"
  /\ log' = [log EXCEPT ![name].meta = TRUE,
                        ![name].metaCalls = @ + 1,
                        ![name].metaObj = MetadataOf(name)]
  /\ pc' = "scan"
  /\ UNCHANGED <<dir, statusFile, dry_run, idx, status, last_mtime_ts, listing,
                 sorted, fileIdx, curRemaining, curFails, streamPos, bufCount,
                 connOpen, raised, cause, failedBatch, parseCalls, batches,
                 written, statusAtStart, imported>>
  /\ metadata' = MetadataOf(name)
  /\ UNCHANGED <<lastRun, parsed>>
  /\ UNCHANGED track

\* mutant of LoadMetadataRaises: the error is caught and the loop goes on
LoadMetadataRaisesCaught ==
  /\ pc = "load"
  /\ log' = [log EXCEPT ![name].meta = TRUE]
  /\ cause' = "metadata"
  /\ ResetSource
  /\ NextSource
  /\ UNCHANGED <<dir, statusFile, dry_run, connOpen, raised, failedBatch,
                 statusAtStart, imported>>
  /\ UNCHANGED <<metadata, lastRun, parsed, track>>

\* load_metadata raises: nothing catches it
LoadMetadataRaises ==
  /\ pc = "load"
  /\ log' = [log EXCEPT ![name].meta = TRUE, ![name].metaCalls = @ + 1]
  /\ Raise("MetadataError", "metadata", NoBatch)
  /\ UNCHANGED <<dir, statusFile, dry_run, idx, status, last_mtime_ts, listing,
                 sorted, fileIdx, curRemaining, curFails, streamPos, bufCount,
                 parseCalls, batches, written, statusAtStart, imported>>
  /\ UNCHANGED <<metadata, lastRun, parsed, track>>

\* the regular files of the listing: those get_mtime is called on
ListedFiles(d) == {p \in Paths : d[p].kind = "file"}

\* json.load of the status file, the scan of the directory, the sort, and
\* either `continue` (no candidate) or the opening of the connection.  A
\* listed file may be gone when its mtime is read (FileNotFoundError).
Scan ==
  /\ pc = "scan"
  /\ IF statusFile.state # "valid"
     THEN /\ Raise("JSONDecodeError", "status", NoBatch)
          /\ UNCHANGED <<dir, statusFile, dry_run, idx, status, last_mtime_ts,
                         listing, sorted, fileIdx, curRemaining, curFails,
                         streamPos, bufCount, parseCalls, batches, written, log,
                         statusAtStart, imported, metadata, lastRun, parsed>>
     ELSE \E order \in Orders({p \in Paths : dir[name][p].kind # "none"}) :
          \E gone \in SUBSET ListedFiles(dir[name]) :
            /\ Cardinality(gone) <= 1
            /\ LET last == ParseIso(LastMtime(statusFile.table, name))
                   cands == SortByMtime(SelectSeq2(order, dir[name], gone, last,
                                                   PatternOf(name)))
               IN  /\ dir' = [dir EXCEPT ![name] =
                                [p \in Paths |-> IF p \in gone THEN NoFile ELSE @[p]]]
                   /\ imported' = [imported EXCEPT ![name] = Without(@, gone)]
                   /\ parsed' = [parsed EXCEPT ![name] = @ \ gone]
                   /\ lastRun' = IF gone = {} THEN lastRun ELSE "none"
                   /\ IF IsEmpty(cands)
                      THEN /\ ResetSource
                           /\ NextSource
                           /\ connOpen' = connOpen
                           /\ log' = [log EXCEPT ![name].scanned = TRUE,
                                                 ![name].empty = (cands = <<>>)]
                      ELSE /\ status' = statusFile.table
                           /\ last_mtime_ts' = last
                           /\ listing' = order
                           /\ sorted' = cands
                           /\ connOpen' = connOpen + 1
                           /\ pc' = "stream"
                           /\ log' = [log EXCEPT ![name].scanned = TRUE,
                                                 ![name].empty = (cands = <<>>),
                                                 ![name].conn = TRUE]
                           /\ UNCHANGED <<idx, fileIdx, curRemaining, curFails,
                                          streamPos, bufCount, parseCalls,
                                          batches, written>>
            /\ UNCHANGED <<statusFile, dry_run, raised, cause, failedBatch,
                           statusAtStart, metadata>>
  /\ UNCHANGED track

\* mutant of PassedMetadata: every file is parsed with the metadata of the
\* first source
PassedMetadataOfFirst == MetadataOf(Sources[1])

\* the metadata argument of self.parse_file(f, name, metadata)
PassedMetadata == metadata

\* the records generator enters the next file: parse_file(f, name, metadata)
ParseFile ==
  /\ pc = "stream"
  /\ curRemaining = 0
  /\ ~curFails
  /\ fileIdx < Len(sorted)
  /\ fileIdx' = fileIdx + 1
  /\ parseCalls' = Append(parseCalls, sorted[fileIdx + 1].p)
  /\ log' = [log EXCEPT ![name].parsed = TRUE,
                        ![name].passed = @ \cup {PassedMetadata}]
  /\ \E n \in RecordCounts, f \in BOOLEAN :
       curRemaining' = n /\ curFails' = f
  /\ UNCHANGED <<dir, statusFile, pc, dry_run, idx, status, last_mtime_ts,
                 listing, sorted, streamPos, bufCount, connOpen, raised, cause,
                 failedBatch, batches, written, statusAtStart, imported>>
  /\ parsed' = IF track = "parsed"
               THEN [parsed EXCEPT ![name] = @ \cup {sorted[fileIdx + 1].p}]
               ELSE parsed
  /\ UNCHANGED <<metadata, lastRun>>
  /\ UNCHANGED track

\* parse_file raises: from_iterable catches it and calls on_error, the open
\* window is dropped, and _on_write_error raises
ParseFileRaises ==
  /\ pc = "stream"
  /\ curRemaining = 0
  /\ curFails
  /\ Raise("InfluxDBFileImporterWriteError", "extract", NoBatch)
  /\ UNCHANGED <<dir, statusFile, dry_run, idx, status, last_mtime_ts, listing,
                 sorted, fileIdx, curRemaining, curFails, streamPos, bufCount,
                 parseCalls, batches, written, log, statusAtStart, imported>>
  /\ UNCHANGED <<metadata, lastRun, parsed, track>>

\* records of the current file that go into the open window
Taken == Min(curRemaining, BATCH_SIZE - bufCount)
\* the batch the window holds once they are in
Window(k) == <<streamPos + 1 - bufCount, streamPos + k>>

\* records are pulled into the window, which stays open
FillWindow ==
  /\ pc = "stream"
  /\ curRemaining > 0
  /\ ~WindowFull(bufCount + Taken)
  /\ bufCount' = bufCount + Taken
  /\ streamPos' = streamPos + Taken
  /\ curRemaining' = curRemaining - Taken
  /\ UNCHANGED <<dir, statusFile, pc, dry_run, idx, status, last_mtime_ts,
                 listing, sorted, fileIdx, curFails, connOpen, raised, cause,
                 failedBatch, parseCalls, batches, written, log, statusAtStart,
                 imported>>
  /\ UNCHANGED <<metadata, lastRun, parsed, track>>

\* the window fills and its batch goes to on_next; dry run: on_next is None
OnNextDry ==
  /\ pc = "stream"
  /\ curRemaining > 0
  /\ WindowFull(bufCount + Taken)
  /\ dry_run
  /\ batches' = Append(batches, Window(Taken))
  /\ bufCount' = 0
  /\ streamPos' = streamPos + Taken
  /\ curRemaining' = curRemaining - Taken
  /\ UNCHANGED <<dir, statusFile, pc, dry_run, idx, status, last_mtime_ts,
                 listing, sorted, fileIdx, curFails, connOpen, raised, cause,
                 failedBatch, parseCalls, written, log, statusAtStart, imported>>
  /\ UNCHANGED <<metadata, lastRun, parsed, track>>

\* on_next is _write: write_api.write(bucket, record=batch) succeeds
OnNextWrite ==
  /\ pc = "stream"
  /\ curRemaining > 0
  /\ WindowFull(bufCount + Taken)
  /\ ~dry_run
  /\ batches' = Append(batches, Window(Taken))
  /\ written' = Append(written, Window(Taken))
  /\ log' = [log EXCEPT ![name].wrote = TRUE]
  /\ bufCount' = 0
  /\ streamPos' = streamPos + Taken
  /\ curRemaining' = curRemaining - Taken
  /\ UNCHANGED <<dir, statusFile, pc, dry_run, idx, status, last_mtime_ts,
                 listing, sorted, fileIdx, curFails, connOpen, raised, cause,
                 failedBatch, parseCalls, statusAtStart, imported>>
  /\ UNCHANGED <<metadata, lastRun, parsed, track>>

\* write_api.write raises inside on_next: from_iterable's loop catches it
\* (except Exception) and calls on_error, and _on_write_error raises
OnNextWriteRaises ==
  /\ pc = "stream"
  /\ curRemaining > 0
  /\ WindowFull(bufCount + Taken)
  /\ ~dry_run
  /\ batches' = Append(batches, Window(Taken))
  /\ streamPos' = streamPos + Taken
  /\ curRemaining' = curRemaining - Taken
  /\ Raise("InfluxDBFileImporterWriteError", "write", Window(Taken))
  /\ UNCHANGED <<dir, statusFile, dry_run, idx, status, last_mtime_ts, listing,
                 sorted, fileIdx, curFails, bufCount, parseCalls, written, log,
                 statusAtStart, imported>>
  /\ UNCHANGED <<metadata, lastRun, parsed, track>>

\* the generator is exhausted
StreamEnded ==
  /\ pc = "stream"
  /\ curRemaining = 0
  /\ ~curFails
  /\ fileIdx = Len(sorted)

\* on_completed with nothing to emit (an empty last window is filtered out),
\* or in a dry run; the with block then releases the connection
OnCompleted ==
  /\ StreamEnded
  /\ ~EmitOnCompleted(bufCount) \/ dry_run
  /\ batches' = IF EmitOnCompleted(bufCount)
                THEN Append(batches, Window(0)) ELSE batches
  /\ bufCount' = 0
  /\ connOpen' = connOpen - 1
  /\ pc' = "commit"
  /\ UNCHANGED <<dir, statusFile, dry_run, idx, status, last_mtime_ts, listing,
                 sorted, fileIdx, curRemaining, curFails, streamPos, raised,
                 cause, failedBatch, parseCalls, written, log, statusAtStart,
                 imported>>
  /\ UNCHANGED <<metadata, lastRun, parsed, track>>

\* on_completed emits the last, partial window and its write succeeds
OnCompletedWrite ==
  /\ StreamEnded
  /\ EmitOnCompleted(bufCount)
  /\ ~dry_run
  /\ batches' = Append(batches, Window(0))
  /\ written' = Append(written, Window(0))
  /\ log' = [log EXCEPT ![name].wrote = TRUE]
  /\ bufCount' = 0
  /\ connOpen' = connOpen - 1
  /\ pc' = "commit"
  /\ UNCHANGED <<dir, statusFile, dry_run, idx, status, last_mtime_ts, listing,
                 sorted, fileIdx, curRemaining, curFails, streamPos, raised,
                 cause, failedBatch, parseCalls, statusAtStart, imported>>
  /\ UNCHANGED <<metadata, lastRun, parsed, track>>

\* the exception import_files ends with when the write of the last window
\* raises: on_completed runs in from_iterable's `except StopIteration`
\* clause, so the loop's `except Exception` does not catch it, on_error is not
\* called, and the remote client's own exception leaves import_files
LastWriteException == "ApiException"

OnCompletedWriteRaises ==
  /\ StreamEnded
  /\ EmitOnCompleted(bufCount)
  /\ ~dry_run
  /\ batches' = Append(batches, Window(0))
  /\ Raise(LastWriteException, "write", Window(0))
  /\ UNCHANGED <<dir, statusFile, dry_run, idx, status, last_mtime_ts, listing,
                 sorted, fileIdx, curRemaining, curFails, streamPos, bufCount,
                 parseCalls, written, log, statusAtStart, imported>>
  /\ UNCHANGED <<metadata, lastRun, parsed, track>>

\* status[name]["last_mtime"] = fromtimestamp(sorted[-1][1]).isoformat(); dry
\* run: on to the next source; else open(status_file, "w") truncates the file
Commit ==
  /\ pc = "commit"
  /\ IF dry_run
     THEN /\ ResetSource
          /\ NextSource
          /\ UNCHANGED statusFile
     ELSE /\ status' = SetLastMtime(status, name, NewWatermark(sorted))
          /\ statusFile' = [state |-> "truncated", table |-> EmptyTable]
          /\ pc' = "write"
          /\ UNCHANGED <<idx, last_mtime_ts, listing, sorted, fileIdx,
                         curRemaining, curFails, streamPos, bufCount,
                         parseCalls, batches, written>>
  /\ UNCHANGED <<dir, dry_run, connOpen, raised, cause, failedBatch, log,
                 statusAtStart, imported>>
  /\ UNCHANGED <<metadata, lastRun, parsed, track>>

\* json.dump(status, status_f, indent=2) and the close of the file
WriteStatus ==
  /\ pc = "write"
  /\ statusFile' = [state |-> "valid", table |-> status]
  /\ log' = [log EXCEPT ![name].committed = TRUE, ![name].wm = status[name]]
  /\ imported' = [imported EXCEPT ![name] =
                    [p \in DOMAIN @ \cup PathsOf(sorted) |->
                       IF p \in PathsOf(sorted) THEN status[name] ELSE @[p]]]
  /\ ResetSource
  /\ NextSource
  /\ UNCHANGED <<dir, dry_run, connOpen, raised, cause, failedBatch,
                 statusAtStart>>
  /\ UNCHANGED <<metadata, lastRun, parsed, track>>

\* import_files has returned or raised; the process is ready for another run
Finish ==
  /\ pc \in {"done", "raised", "crashed"}
  /\ pc' = "idle"
  /\ dry_run' = FALSE
  /\ idx' = 1
  /\ raised' = "none"
  /\ cause' = "none"
  /\ failedBatch' = NoBatch
  /\ connOpen' = 0
  /\ log' = [s \in SourceNames |-> NoLog]
  /\ statusAtStart' = statusFile
  /\ ResetSource
  /\ UNCHANGED <<dir, statusFile, imported>>
  /\ metadata' = "none"
  /\ lastRun' = IF track = "lastRun" /\ pc = "done"
                THEN IF dry_run THEN "dry" ELSE "real"
                ELSE "none"
  /\ UNCHANGED parsed
  /\ UNCHANGED track

\* the process stops (killed, power loss) while the status file is open for
\* writing: between open(status_file, "w") and the end of the with block
Crash ==
  /\ pc = "write"
  /\ pc' = "crashed"
  /\ connOpen' = 0
  /\ UNCHANGED <<dir, statusFile, dry_run, idx, status, last_mtime_ts, listing,
                 sorted, fileIdx, curRemaining, curFails, streamPos, bufCount,
                 raised, cause, failedBatch, parseCalls, batches, written, log,
                 statusAtStart, imported>>
  /\ UNCHANGED <<metadata, lastRun, parsed, track>>

\* the mtimes a file is written with: a file the pattern leaves out gets the
\* newest one, the case in which the pattern decides
TouchTimes(s, p) ==
  IF Matches(PatternOf(s), p) THEN Mtimes ELSE {MaxMtime}

Environment ==
  \E s \in SourceNames, p \in Paths :
    \/ \E t \in TouchTimes(s, p) : Touch(s, p, t)
    \/ MakeDir(s, p)
    \/ Remove(s, p)

Next ==
  \/ Environment
  \/ \E d \in BOOLEAN : StartRun(d)
  \/ LoadMetadata
  \/ LoadMetadataRaises
  \/ Scan
  \/ ParseFile
  \/ ParseFileRaises
  \/ FillWindow
  \/ OnNextDry
  \/ OnNextWrite
  \/ OnNextWriteRaises
  \/ OnCompleted
  \/ OnCompletedWrite
  \/ OnCompletedWriteRaises
  \/ Commit
  \/ WriteStatus
  \/ Finish

Spec == Init /\ [][Next]_vars

\* the same program, where the process may also stop at any point of a run
SpecCrash == Init /\ [][Next \/ Crash]_vars

\* the watermarks another writer may store
OtherWatermarks == {FormatIso(t) : t \in Mtimes}

\* Another process sharing the status file persists a later watermark for
\* source s, between import_files' read of the table for the current source
\* (json.load) and its write-back (open(status_file, "w") and json.dump); the
\* moment taken in that interval is the one after the delivery.
OtherWriter(s, w) ==
  /\ pc = "commit"
  /\ s # name
  /\ statusFile.state = "valid"
  /\ w > LastMtime(statusFile.table, s)
  /\ statusFile' = [statusFile EXCEPT !.table = SetLastMtime(@, s, w)]
  /\ log' = [log EXCEPT ![s].other =
                {[read |-> IF s \in DOMAIN status THEN {status[s]} ELSE {},
                  new |-> w, during |-> name]}]
  /\ UNCHANGED <<dir, pc, dry_run, idx, status, last_mtime_ts, listing, sorted,
                 fileIdx, curRemaining, curFails, streamPos, bufCount, connOpen,
                 raised, cause, failedBatch, parseCalls, batches, written,
                 statusAtStart, imported, metadata, lastRun, parsed, track>>

\* the program next to another writer of the status file
NextConc ==
  \/ Next
  \/ \E s \in SourceNames, w \in OtherWatermarks : OtherWriter(s, w)

SpecConc == Init /\ [][NextConc]_vars

\* the same program, with the outcome of the last run recorded
InitAgain == InitState /\ track = "lastRun"

SpecAgain == InitAgain /\ [][Next]_vars

\* A file is written into the directory of the source being processed after
\* its scan (iterdir and the stats) and before the watermark is committed.
Appear(p, t) ==
  /\ pc = "commit"
  /\ dir[name][p].kind = "none"
  /\ dir' = [dir EXCEPT ![name][p] = [kind |-> "file", mtime |-> t]]
  /\ lastRun' = "none"
  /\ UNCHANGED <<statusFile, pc, dry_run, idx, status, last_mtime_ts, listing,
                 sorted, fileIdx, curRemaining, curFails, streamPos, bufCount,
                 connOpen, raised, cause, failedBatch, parseCalls, batches,
                 written, log, statusAtStart, imported, metadata, parsed,
                 track>>

\* the program, with the files given to parse_file recorded, and a directory
\* that changes during a run as well
InitGaps == InitState /\ track = "parsed"

NextGaps ==
  \/ Next
  \/ \E p \in Paths : \E t \in TouchTimes(name, p) : Appear(p, t)

SpecGaps == InitGaps /\ [][NextGaps]_vars

\* ------------------------------------------------ the rx-based module
\* src/influxdb_file_importer.py: the same loop, with the metadata of every
\* type loaded before it, files chosen by suffix, no is_file() test, no
\* creation of the status file, and the emptiness test made before the sort.

\* self._files_cfg["types"][config["type"]]["suffixes"]; each source has a
\* type of its own
SuffixesOf(n) == IF n = "foo" THEN {} ELSE {".csv"}
\* p.suffix
Suffix(p) == IF p = 1 THEN ".csv" ELSE ".tmp"
\* not suffixes or p.suffix in suffixes
MatchesSuffix(suffixes, p) == suffixes = {} \/ Suffix(p) \in suffixes

\* if not file_mtimes_paths: the test of a generator object, always true
RxIsEmpty(cands) == FALSE

\* the generator file_mtimes_paths: the entries listed whose mtime was read
\* and is later than last_mtime_ts, with one of the suffixes
RECURSIVE RxSelect(_, _, _, _, _)
RxSelect(order, d, gone, last, suffixes) ==
  IF order = <<>> THEN <<>>
  ELSE LET p == Head(order)
           rest == RxSelect(Tail(order), d, gone, last, suffixes)
       IN  IF /\ \E t \in GetMtime(d, p, gone) : NewerThan(t, last)
              /\ MatchesSuffix(suffixes, p)
           THEN <<[p |-> p, t |-> CHOOSE t \in GetMtime(d, p, gone) : TRUE]>>
                  \o rest
           ELSE rest

\* the operator creates the status file ("{}") before the first run
CreateStatusFile ==
  /\ pc = "idle"
  /\ statusFile.state = "absent"
  /\ statusFile' = [state |-> "valid", table |-> EmptyTable]
  /\ statusAtStart' = statusFile'
  /\ UNCHANGED <<dir, pc, dry_run, idx, status, last_mtime_ts, listing, sorted,
                 fileIdx, curRemaining, curFails, streamPos, bufCount, connOpen,
                 raised, cause, failedBatch, parseCalls, batches, written, log,
                 imported, metadata, lastRun, parsed, track>>

\* import_files(dry_run): metadata = {k: self.load_metadata(...) for k, v in
\* types}, every call returning
RxStartRun(d) ==
  /\ pc = "idle"
  /\ dry_run' = d
  /\ statusAtStart' = statusFile
  /\ idx' = 1
  /\ pc' = "load"
  /\ log' = [s \in SourceNames |->
               [NoLog EXCEPT !.meta = TRUE, !.metaCalls = 1,
                             !.metaObj = MetadataOf(s)]]
  /\ UNCHANGED <<dir, statusFile, status, last_mtime_ts, listing, sorted,
                 fileIdx, curRemaining, curFails, streamPos, bufCount, connOpen,
                 raised, cause, failedBatch, parseCalls, batches, written,
                 imported, metadata, lastRun, parsed, track>>

\* import_files(dry_run): a load_metadata call raises
RxStartRunRaises(d) ==
  /\ pc = "idle"
  /\ dry_run' = d
  /\ statusAtStart' = statusFile
  /\ log' = [s \in SourceNames |-> NoLog]
  /\ Raise("MetadataError", "metadata", NoBatch)
  /\ UNCHANGED <<dir, statusFile, idx, status, last_mtime_ts, listing, sorted,
                 fileIdx, curRemaining, curFails, streamPos, bufCount,
                 parseCalls, batches, written, imported, metadata, lastRun,
                 parsed, track>>

\* for name, config in self._files_cfg["data"].items(): the next source, whose
\* files will be parsed with metadata[config["type"]]
RxEnterSource ==
  /\ pc = "load"
  /\ pc' = "scan"
  /\ metadata' = log[name].metaObj
  /\ UNCHANGED <<dir, statusFile, dry_run, idx, status, last_mtime_ts, listing,
                 sorted, fileIdx, curRemaining, curFails, streamPos, bufCount,
                 connOpen, raised, cause, failedBatch, parseCalls, batches,
                 written, log, statusAtStart, imported, lastRun, parsed, track>>

\* open(status_file) and json.load, the scan of the directory, the test of
\* the generator, the sort, and the opening of the connection
RxScan ==
  /\ pc = "scan"
  /\ IF statusFile.state # "valid"
     THEN /\ Raise(IF statusFile.state = "absent"
                   THEN "FileNotFoundError" ELSE "JSONDecodeError",
                   "status", NoBatch)
          /\ UNCHANGED <<dir, statusFile, dry_run, idx, status, last_mtime_ts,
                         listing, sorted, fileIdx, curRemaining, curFails,
                         streamPos, bufCount, parseCalls, batches, written, log,
                         statusAtStart, imported, metadata, lastRun, parsed>>
     ELSE \E order \in Orders({p \in Paths : dir[name][p].kind # "none"}) :
          \E gone \in SUBSET ListedFiles(dir[name]) :
            /\ Cardinality(gone) <= 1
            /\ LET last == ParseIso(LastMtime(statusFile.table, name))
                   file_mtimes_paths ==
                     RxSelect(order, dir[name], gone, last, SuffixesOf(name))
                   cands == SortByMtime(file_mtimes_paths)
               IN  /\ dir' = [dir EXCEPT ![name] =
                                [p \in Paths |-> IF p \in gone THEN NoFile ELSE @[p]]]
                   /\ imported' = [imported EXCEPT ![name] = Without(@, gone)]
                   /\ parsed' = [parsed EXCEPT ![name] = @ \ gone]
                   /\ lastRun' = IF gone = {} THEN lastRun ELSE "none"
                   /\ IF RxIsEmpty(file_mtimes_paths)
                      THEN /\ ResetSource
                           /\ NextSource
                           /\ connOpen' = connOpen
                           /\ log' = [log EXCEPT ![name].scanned = TRUE,
                                                 ![name].empty = (cands = <<>>)]
                      ELSE /\ status' = statusFile.table
                           /\ last_mtime_ts' = last
                           /\ listing' = order
                           /\ sorted' = cands
                           /\ connOpen' = connOpen + 1
                           /\ pc' = "stream"
                           /\ log' = [log EXCEPT ![name].scanned = TRUE,
                                                 ![name].empty = (cands = <<>>),
                                                 ![name].conn = TRUE]
                           /\ UNCHANGED <<idx, fileIdx, curRemaining, curFails,
                                          streamPos, bufCount, parseCalls,
                                          batches, written>>
            /\ UNCHANGED <<statusFile, dry_run, raised, cause, failedBatch,
                           statusAtStart, metadata>>
  /\ UNCHANGED track

\* status[name]["last_mtime"] = fromtimestamp(sorted_file_mtimes_paths[-1][1])
\* .isoformat(): IndexError when the list is empty; then as in Commit
RxCommit ==
  /\ pc = "commit"
  /\ IF sorted = <<>>
     THEN /\ Raise("IndexError", "index", NoBatch)
          /\ UNCHANGED <<statusFile, idx, status, last_mtime_ts, listing,
                         sorted, fileIdx, curRemaining, curFails, streamPos,
                         bufCount, parseCalls, batches, written>>
     ELSE /\ IF dry_run
             THEN /\ ResetSource
                  /\ NextSource
                  /\ UNCHANGED statusFile
             ELSE /\ status' = SetLastMtime(status, name, NewWatermark(sorted))
                  /\ statusFile' = [state |-> "truncated", table |-> EmptyTable]
                  /\ pc' = "write"
                  /\ UNCHANGED <<idx, last_mtime_ts, listing, sorted, fileIdx,
                                 curRemaining, curFails, streamPos, bufCount,
                                 parseCalls, batches, written>>
          /\ UNCHANGED <<connOpen, raised, cause, failedBatch>>
  /\ UNCHANGED <<dir, dry_run, log, statusAtStart, imported, metadata, lastRun,
                 parsed, track>>

RxNext ==
  \/ Environment
  \/ CreateStatusFile
  \/ \E d \in BOOLEAN : RxStartRun(d)
  \/ \E d \in BOOLEAN : RxStartRunRaises(d)
  \/ RxEnterSource
  \/ RxScan
  \/ ParseFile
  \/ ParseFileRaises
  \/ FillWindow
  \/ OnNextDry
  \/ OnNextWrite
  \/ OnNextWriteRaises
  \/ OnCompleted
  \/ OnCompletedWrite
  \/ OnCompletedWriteRaises
  \/ RxCommit
  \/ WriteStatus
  \/ Finish

\* the rx-based module
SpecRx == Init /\ [][RxNext]_vars

\* ================================================================ claims
RunEnded == pc \in {"done", "raised"}
IndexOf(s) == CHOOSE i \in DOMAIN Sources : Sources[i] = s
LaterSources == {Sources[j] : j \in (idx + 1)..Len(Sources)}
\* the entry of source s in a status file: a set with its last_mtime, or empty
EntryOf(file, s) ==
  IF file.state = "valid" /\ s \in DOMAIN file.table THEN {file.table[s]} ELSE {}
\* the watermark a status file gives source s
WatermarkOf(file, s) == LastMtime(file.table, s)
CeilDiv(n, b) == (n + b - 1) \div b

\* C1: when the remote write of a batch fails, the run ends by raising
\* InfluxDBFileImporterWriteError, no later batch of the source is written,
\* the status file still holds the source's watermark from before the run, and
\* no source declared after it is processed.
C1_WriteFailureRaisesWriteError ==
  (pc = "raised" /\ cause = "write") =>
    /\ raised = "InfluxDBFileImporterWriteError"
    /\ \A i \in DOMAIN written : written[i][2] < failedBatch[1]
    /\ EntryOf(statusFile, name) = EntryOf(statusAtStart, name)
    /\ \A s \in LaterSources : log[s] = NoLog

\* C2: for every source and every run (successful, aborted by an error, or
\* dry), the watermark stored after the run is never earlier than the one
\* stored before the run; an absent entry counts as the epoch.
C2_WatermarkMonotonic ==
  RunEnded =>
    /\ statusFile.state = "valid"
    /\ \A s \in SourceNames :
         WatermarkOf(statusFile, s) >= WatermarkOf(statusAtStart, s)

\* C2 witness: a run has ended with a source whose stored watermark it raised
\* above the one an earlier run had stored.
C2_Witness ==
  /\ pc = "done"
  /\ \E s \in SourceNames :
       /\ EntryOf(statusAtStart, s) # {}
       /\ WatermarkOf(statusFile, s) > WatermarkOf(statusAtStart, s)

\* C3 as stated: a file a committed run processed, its modification time
\* unchanged, is never a candidate of a later run.
C3_NeverReimported ==
  \A i \in DOMAIN sorted : sorted[i].p \notin DOMAIN imported[name]

\* C3 amended: a file a committed run processed, its modification time
\* unchanged and not later than the watermark that run committed (as read back
\* from the stored form, which is rounded to the microsecond), is never a
\* candidate of a later run.
C3_NotReimportedUpToWatermark ==
  \A i \in DOMAIN sorted :
    sorted[i].p \in DOMAIN imported[name] =>
      sorted[i].t > ParseIso(imported[name][sorted[i].p])

\* C3 witness: a later run has scanned a source that holds files a run
\* committed, and none of them is a candidate.
C3_Witness ==
  \E s \in SourceNames :
    /\ log[s].empty
    /\ DOMAIN imported[s] # {}
    /\ \E p \in DOMAIN imported[s] : dir[s][p].mtime = ParseIso(imported[s][p])

\* C4: when the process stops while the status file is being written for a
\* source, the file on disk is a valid table holding the watermarks as they
\* were before the write or as they are after it.
C4_CrashConsistent ==
  pc = "crashed" =>
    /\ statusFile.state = "valid"
    /\ SetLastMtime(statusFile.table, name, status[name]) = status

\* C5 as stated: for a source whose scan yields no candidate, load_metadata
\* is not called, no connection is opened, nothing is written, the status
\* file is left unchanged, and the run goes on with the next source.
C5_EmptyScanSkipsEverything ==
  \A s \in SourceNames :
    log[s].empty =>
      /\ ~log[s].meta
      /\ ~log[s].conn /\ ~log[s].parsed /\ ~log[s].wrote /\ ~log[s].committed
      /\ statusFile.state = "valid" =>
           EntryOf(statusFile, s) = EntryOf(statusAtStart, s)
      /\ idx > IndexOf(s) \/ pc = "done"

\* C5 amended: for a source whose scan yields no candidate, load_metadata has
\* been called (it is called before the scan), and then no connection is
\* opened, parse_file is not called, nothing is written, the source's entry in
\* the status file is left unchanged, and the run goes on with the next source
\* without error.
C5_EmptyScanSkipsAfterMetadata ==
  \A s \in SourceNames :
    log[s].empty =>
      /\ log[s].meta
      /\ ~log[s].conn /\ ~log[s].parsed /\ ~log[s].wrote /\ ~log[s].committed
      /\ statusFile.state = "valid" =>
           EntryOf(statusFile, s) = EntryOf(statusAtStart, s)
      /\ idx > IndexOf(s) \/ pc = "done"

\* C5 witness: the first source had no candidate although its directory holds
\* a file, and the run is at the second source.
C5_Witness ==
  /\ log[Sources[1]].empty
  /\ ListedFiles(dir[Sources[1]]) # {}
  /\ idx = 2
  /\ pc = "stream"

\* C6: in a dry run no batch is written and the status file is as it was
\* before the run, in existence and in content, also when it did not exist.
C6_DryRunLeavesStatusFile ==
  (dry_run /\ pc # "idle") =>
    /\ written = <<>>
    /\ \A s \in SourceNames : ~log[s].wrote
    /\ statusFile = statusAtStart

\* C7 as stated: a failure of load_metadata aborts only that source, and every
\* source declared after it is still processed in the same run.
C7_MetadataFailureSkipsSource ==
  (RunEnded /\ cause = "metadata") =>
    /\ ~log[name].scanned /\ ~log[name].wrote /\ ~log[name].committed
    /\ \A s \in LaterSources : log[s].meta

\* C7 amended: a failure of load_metadata ends the run with that error: the
\* source gets no scan, no connection, no write and no watermark update, and
\* no source declared after it is processed.
C7_MetadataFailureAbortsRun ==
  cause = "metadata" =>
    /\ pc = "raised"
    /\ raised = "MetadataError"
    /\ ~log[name].scanned /\ ~log[name].conn /\ ~log[name].wrote
    /\ ~log[name].committed
    /\ EntryOf(statusFile, name) = EntryOf(statusAtStart, name)
    /\ \A s \in LaterSources : log[s] = NoLog

\* C7 witness: load_metadata failed for the first source while the second
\* source's directory holds a file that matches its pattern.
C7_Witness ==
  /\ cause = "metadata"
  /\ idx = 1
  /\ \E p \in ListedFiles(dir[Sources[2]]) : Matches(PatternOf(Sources[2]), p)

\* the candidates of the current source, from the directory
Candidates ==
  {p \in Paths : /\ dir[name][p].kind = "file"
                 /\ dir[name][p].mtime > last_mtime_ts
                 /\ Matches(PatternOf(name), p)}
PositionIn(q, p) == CHOOSE i \in DOMAIN q : q[i] = p

\* C8 as stated: parse_file is called once per candidate, in ascending order
\* of modification time, candidates of equal modification time in path order.
C8_OrderByMtimeThenPath ==
  pc = "commit" =>
    /\ Len(parseCalls) = Cardinality(Candidates)
    /\ {parseCalls[i] : i \in DOMAIN parseCalls} = Candidates
    /\ \A i, j \in DOMAIN parseCalls :
         i < j =>
           \/ dir[name][parseCalls[i]].mtime < dir[name][parseCalls[j]].mtime
           \/ /\ dir[name][parseCalls[i]].mtime = dir[name][parseCalls[j]].mtime
              /\ parseCalls[i] < parseCalls[j]

\* C8 amended: parse_file is called once per candidate, in ascending order of
\* modification time, candidates of equal modification time in the order the
\* directory listing returned them.
C8_OrderByMtimeThenListing ==
  pc = "commit" =>
    /\ Len(parseCalls) = Cardinality(Candidates)
    /\ {parseCalls[i] : i \in DOMAIN parseCalls} = Candidates
    /\ \A i, j \in DOMAIN parseCalls :
         i < j =>
           \/ dir[name][parseCalls[i]].mtime < dir[name][parseCalls[j]].mtime
           \/ /\ dir[name][parseCalls[i]].mtime = dir[name][parseCalls[j]].mtime
              /\ PositionIn(listing, parseCalls[i])
                   < PositionIn(listing, parseCalls[j])

\* C8 witness: two candidates were parsed, the newer one listed first.
C8_Witness ==
  /\ pc = "commit"
  /\ Len(parseCalls) = 2
  /\ dir[name][parseCalls[1]].mtime < dir[name][parseCalls[2]].mtime
  /\ PositionIn(listing, parseCalls[2]) < PositionIn(listing, parseCalls[1])

\* C9: for a stream of n records, write is called ceil(n / BATCH_SIZE) times,
\* in stream order; every batch but the last holds BATCH_SIZE records, the
\* last holds the rest, none is empty, and together they are the stream.
C9_Batching ==
  (pc = "commit" /\ ~dry_run) =>
    /\ written = batches
    /\ Len(written) = CeilDiv(streamPos, BATCH_SIZE)
    /\ \A i \in DOMAIN written :
         written[i] = <<(i - 1) * BATCH_SIZE + 1, Min(i * BATCH_SIZE, streamPos)>>

\* C9 witness: 12,000 records were written as three batches, the last of 2000.
C9_Witness ==
  /\ pc = "commit"
  /\ ~dry_run
  /\ streamPos = 12000
  /\ Len(written) = 3
  /\ written[3] = <<10001, 12000>>

\* C10: a commit changes only its source's entry: the entry of a source this
\* run did not commit is as it was before the run, and a watermark committed
\* earlier in the run is still there, with the value committed.
C10_CommitChangesOneEntry ==
  (statusFile.state = "valid" /\ pc # "idle") =>
    \A s \in SourceNames :
      /\ ~log[s].committed => EntryOf(statusFile, s) = EntryOf(statusAtStart, s)
      /\ log[s].committed => EntryOf(statusFile, s) = {log[s].wm}

\* C10 witness: the run committed the first source, then the second, and a
\* source that had an entry before the run.
C10_Witness ==
  /\ pc = "done"
  /\ \A s \in SourceNames : log[s].committed
  /\ EntryOf(statusAtStart, Sources[1]) # {}

\* the latest of a set of mtimes, and the mtimes of a list of candidates
MaxOf(S) == CHOOSE m \in S : \A x \in S : x <= m
MtimesOf(q) == {q[i].t : i \in DOMAIN q}
\* the files of the current source that were listed and were gone when their
\* mtime was read
Vanished ==
  {listing[i] : i \in DOMAIN listing} \cap
    {p \in Paths : dir[name][p].kind = "none"}

\* the updates of another writer that the run has since written back over:
\* the source current at the update is committed, the updated source is not
\* one the run committed afterwards
WrittenOver(s) ==
  {o \in log[s].other :
     /\ statusFile.state = "valid"
     /\ log[o.during].committed
     /\ ~(log[s].committed /\ IndexOf(s) > IndexOf(o.during))}

\* C11 as stated: a watermark another writer persists for source B after
\* import_files read the table for source A and before it writes the table
\* back is still in the status file after the write-back.
C11_NoLostUpdate ==
  \A s \in SourceNames :
    \A o \in WrittenOver(s) : EntryOf(statusFile, s) = {o.new}

\* C11 amended: the write-back stores the whole table as it was read for
\* source A with A's key replaced, so a watermark another writer persisted
\* for source B in between is lost: B's entry is again what import_files had
\* read.
C11_WriteBackRestoresTableRead ==
  \A s \in SourceNames :
    \A o \in WrittenOver(s) : EntryOf(statusFile, s) = o.read

\* C11 witness: another writer raised the stored watermark of a source while
\* another source was delivered, and that source has been written back.
C11_Witness ==
  \E s \in SourceNames :
    \E o \in WrittenOver(s) : o.read # {} /\ EntryOf(statusFile, s) = o.read

\* C12: the connection opened for a source is released on every exit path of
\* its delivery (end of stream, dry run, failed write, failed extraction); at
\* most one connection is open at any moment, one is open only while the
\* source's stream is being delivered, and none is open when import_files has
\* returned or raised.
C12_ConnectionReleased ==
  /\ connOpen \in {0, 1}
  /\ connOpen = 1 => pc = "stream"
  /\ pc \in {"commit", "write", "done", "raised", "idle"} => connOpen = 0

\* C12 witness: a run has raised because parse_file failed while the source's
\* connection was open, and no connection is open.
C12_Witness ==
  /\ pc = "raised"
  /\ cause = "extract"
  /\ log[name].conn
  /\ connOpen = 0

\* C13: when a run has returned and import_files is run again in the same
\* mode (or as a dry run after a real one) with no file added, modified or
\* removed since, the status file after the second run holds exactly what
\* the first run left.
C13_SecondRunKeepsWatermarks ==
  (RunEnded /\ (lastRun = "real" \/ (lastRun = "dry" /\ dry_run))) =>
    statusFile = statusAtStart

\* C13 witness: the second of two real runs has returned after it committed a
\* source again.
C13_Witness ==
  /\ pc = "done"
  /\ lastRun = "real"
  /\ ~dry_run
  /\ \E s \in SourceNames : log[s].committed

\* C14: a file that was listed and was gone when its mtime was read does not
\* make import_files raise and is no candidate: parse_file is not called on
\* it, the candidates are exactly the other files that qualify, all of them
\* are parsed, and the watermark committed is the one of their latest mtime.
C14_VanishedFileIsSkipped ==
  Vanished # {} =>
    /\ pc = "raised" => cause \in {"write", "extract"}
    /\ PathsOf(sorted) \cap Vanished = {}
    /\ \A i \in DOMAIN parseCalls : parseCalls[i] \notin Vanished
    /\ PathsOf(sorted) = Candidates
    /\ pc \in {"commit", "write"} => Len(parseCalls) = Len(sorted)
    /\ pc = "write" =>
         status[name] =
           FormatIso(MaxOf({dir[name][p].mtime : p \in Candidates}))

\* C14 witness: one of two listed files was gone at its stat, the other was
\* parsed, and the source's watermark is being written.
C14_Witness ==
  /\ pc = "write"
  /\ Vanished # {}
  /\ Len(parseCalls) = 1

\* C15 as stated: in every run load_metadata is called exactly once for each
\* configured source, before any parse_file call of that source, and the
\* object it returned is passed to every parse_file call of that source.
C15_MetadataOncePerSource ==
  RunEnded =>
    \A s \in SourceNames :
      /\ log[s].metaCalls = 1
      /\ log[s].parsed => log[s].passed = {log[s].metaObj}

\* C15 amended: load_metadata is called exactly once for each source the run
\* reaches (every source when the run returns; the sources up to the failing
\* one when it raises) and not at all for the sources after it, before any
\* parse_file call of that source, and the object it returned is passed to
\* every parse_file call of that source.
C15_MetadataOncePerSourceReached ==
  \A s \in SourceNames :
    /\ log[s].metaCalls =
         IF \/ pc = "idle"
            \/ IndexOf(s) > idx
            \/ (IndexOf(s) = idx /\ pc = "load")
         THEN 0 ELSE 1
    /\ log[s].parsed =>
         /\ log[s].metaCalls = 1
         /\ log[s].metaObj = MetadataOf(s)
         /\ log[s].passed = {log[s].metaObj}

\* C15 witness: the run has returned, files of both sources were parsed, and
\* load_metadata was called once for each.
C15_Witness ==
  /\ pc = "done"
  /\ \A s \in SourceNames : log[s].parsed /\ log[s].metaCalls = 1

\* the common part of C16: the status file is written for a source only in a
\* real run, after the stream ended with every batch written and the
\* connection closed; sources are committed in declared order, and what the
\* run committed for earlier sources is in the file when a later one fails
C16_AfterDeliveryInOrder ==
  /\ pc = "write" =>
       /\ ~dry_run
       /\ connOpen = 0
       /\ fileIdx = Len(sorted) /\ curRemaining = 0 /\ bufCount = 0
       /\ written = batches
  /\ \A s \in SourceNames : log[s].committed => IndexOf(s) < idx \/ pc = "done"
  /\ (pc \in {"write", "raised"} /\ ~dry_run) =>
       \A s \in SourceNames :
         (IndexOf(s) < idx /\ log[s].conn) => log[s].committed
  /\ pc = "raised" =>
       \A s \in SourceNames :
         log[s].committed => EntryOf(statusFile, s) = {log[s].wm}

\* C16 as stated: the value written for the source is the maximum mtime among
\* the candidates, after delivery, in declared order.
C16_CommitsMaxMtime ==
  /\ C16_AfterDeliveryInOrder
  /\ pc = "write" => ParseIso(status[name]) = MaxOf(MtimesOf(sorted))

\* C16 amended: the value written for the source is the maximum mtime among
\* the candidates rounded to the microsecond (above or below it), after
\* delivery, in declared order.
C16_CommitsRoundedMaxMtime ==
  /\ C16_AfterDeliveryInOrder
  /\ pc = "write" => status[name] = FormatIso(MaxOf(MtimesOf(sorted)))

\* C16 witness: the second source failed after the first was committed from
\* two candidates of different mtimes.
C16_Witness ==
  /\ pc = "raised"
  /\ idx = Len(Sources)
  /\ cause = "write"
  /\ log[Sources[1]].committed
  /\ EntryOf(statusFile, Sources[1]) = {FormatIso(MaxMtime)}
  /\ Cardinality({dir[Sources[1]][p].mtime : p \in Paths}) = Cardinality(Paths)

\* C17: in the rx-based module, a source with no file newer than its
\* watermark, or none with one of its suffixes, is skipped: no connection is
\* opened for it, import_files does not raise because of it, the status file
\* keeps its entry, and the run goes on with the next source.
C17_RxEmptySourceSkipped ==
  \A s \in SourceNames :
    log[s].empty =>
      /\ ~log[s].conn
      /\ pc = "raised" => name # s
      /\ statusFile.state = "valid"
      /\ EntryOf(statusFile, s) = EntryOf(statusAtStart, s)
      /\ (IndexOf(s) < Len(Sources) /\ RunEnded /\ raised # "IndexError") =>
           log[Sources[IndexOf(s) + 1]].scanned

\* C18: import_files raises InfluxDBFileImporterWriteError only when a remote
\* write failed; when parse_file raises, the run ends with another error; in
\* both cases the source's watermark is not updated.
C18_WriteErrorOnlyForWrites ==
  pc = "raised" =>
    /\ raised = "InfluxDBFileImporterWriteError" => cause = "write"
    /\ cause = "extract" => raised # "InfluxDBFileImporterWriteError"
    /\ cause \in {"write", "extract"} =>
         EntryOf(statusFile, name) = EntryOf(statusAtStart, name)

\* C19: no gaps. Every regular file that matches its source's pattern and
\* keeps its mtime is passed to parse_file by some run: between runs, such a
\* file that no run has parsed yet is one the next scan takes, its mtime
\* being later than the stored watermark (which no run lowers).  This covers
\* the file that appeared after a run's scan and before its commit, and the
\* file whose mtime is not later than the watermark that run committed.
C19_NoGaps ==
  (pc = "idle" /\ statusFile.state = "valid") =>
    \A s \in SourceNames :
      \A p \in Paths :
        ( /\ dir[s][p].kind = "file"
          /\ Matches(PatternOf(s), p)
          /\ p \notin parsed[s] ) =>
          NewerThan(dir[s][p].mtime, ParseIso(WatermarkOf(statusFile, s)))

====
